---- MODULE Spec2Model ----
(***************************************************************************)
(* Model of the App-Financeiro backend (Google Apps Script over a          *)
(* spreadsheet): session handling, transactions and installments, the      *)
(* statement importer and the investment portfolio accumulator.            *)
(*                                                                         *)
(* Money is held in thousandths of the currency unit ("milli"), so that    *)
(* Math.round(amount * 100) is a real rounding.  Calendar dates are         *)
(* records [y, m, d]; a 'YYYY-MM-DD' string is the same record.            *)
(***************************************************************************)
EXTENDS Integers, Sequences, FiniteSets, TLC

VARIABLES
    clock,        \* seconds since the start of the run
    cache,        \* CacheService.getUserCache(): key -> entry
    props,        \* PropertiesService script properties (credentials)
    txRows,       \* data rows of the Transactions sheet
    importColumns,\* whether the Transactions header has the import columns
    catRows,      \* data rows of the Categories sheet
    invRows,      \* data rows of the InvestmentTransactions sheet
    logCount,     \* number of data rows of the Logs sheet
    dataVersion,  \* user property data_version_<namespace>
    lastOp,       \* the last call: its name, inputs and returned object
    uuidCount,    \* number of ids handed out by Utilities.getUuid / batch ids
    tokenCount,   \* number of session tokens generated so far
    tz,           \* script time zone, hours east of UTC
    backups,      \* number of spreadsheet copies made by createBackup
    sheets,       \* sheet name -> whether it exists, and its header row
    settingsRows, \* data rows of the Settings sheet
    procs,        \* concurrent executions: position and local variables
    lock,         \* holder of LockService.getScriptLock(), or 0
    audit         \* history of the run: per issued token the time of its
                  \* login and whether logout was called since; the tokens
                  \* given to a successful logout

vars == <<clock, cache, props, txRows, importColumns, catRows, invRows, logCount,
          dataVersion, lastOp, uuidCount, tokenCount, tz, backups, sheets,
          settingsRows, procs, lock, audit>>

NoAudit == [logins |-> <<>>, revoked |-> {}]

----------------------------------------------------------------------------
(* Bounds of the model *)

MaxInstallmentsTried == 3
MaxLogs == 2
Years == {2023, 2024}

(* Script time zones: UTC and America/Sao_Paulo (UTC-3), the zone the     *)
(* repository itself names.                                                *)
TimeZoneOffsets == {0 - 3, 0}

NoEntry == [live |-> FALSE]

----------------------------------------------------------------------------
(* Sheets and their header rows, as setup() writes them *)
SheetNames == {"Transactions", "Categories", "Settings", "Logs"}

Headers ==
    [Transactions |-> <<"id", "date", "type", "category", "description", "amount",
                        "createdAt", "updatedAt", "attachmentId", "paymentMethod",
                        "installments", "installmentNumber", "parentTransactionId">>,
     Categories |-> <<"id", "kind", "name", "isActive">>,
     Settings |-> <<"key", "value">>,
     Logs |-> <<"ts", "user", "module", "level", "action", "message", "stack">>]

NoSheet == [exists |-> FALSE, header |-> <<>>]

ConfiguredSheets == [n \in SheetNames |-> [exists |-> TRUE, header |-> Headers[n]]]

NoProcs == <<>>

----------------------------------------------------------------------------
(* Calendar arithmetic of the JavaScript Date object *)

IsLeap(y) == (y % 4 = 0 /\ y % 100 # 0) \/ y % 400 = 0

DaysInMonth(y, m) ==
    IF m = 2 THEN (IF IsLeap(y) THEN 29 ELSE 28)
    ELSE IF m \in {4, 6, 9, 11} THEN 30 ELSE 31

IsCalendarDate(dt) ==
    /\ dt.m \in 1..12
    /\ dt.d \in 1..DaysInMonth(dt.y, dt.m)

PrevDay(dt) ==
    IF dt.d > 1 THEN [dt EXCEPT !.d = dt.d - 1]
    ELSE IF dt.m > 1 THEN [y |-> dt.y, m |-> dt.m - 1, d |-> DaysInMonth(dt.y, dt.m - 1)]
    ELSE [y |-> dt.y - 1, m |-> 12, d |-> 31]

(* new Date('YYYY-MM-DD') is midnight UTC; getFullYear/getMonth/getDate    *)
(* read it in the script time zone.                                        *)
NewDateLocal(dateStr, zone) ==
    IF zone < 0 THEN PrevDay(dateStr) ELSE dateStr

(* Date.prototype.setMonth(getMonth() + months): the month index is        *)
(* normalised into the year, and a day past the end of the month rolls     *)
(* over into the next month.                                               *)
SetMonth(dt, months) ==
    LET idx == (dt.m - 1) + months
        yy  == dt.y + (idx \div 12)
        mm  == (idx % 12) + 1
        dim == DaysInMonth(yy, mm)
    IN  IF dt.d <= dim THEN [y |-> yy, m |-> mm, d |-> dt.d]
        ELSE IF mm = 12 THEN [y |-> yy + 1, m |-> 1, d |-> dt.d - dim]
        ELSE [y |-> yy, m |-> mm + 1, d |-> dt.d - dim]

(* Date.prototype.setDate(0): the last day of the previous month *)
SetDateZero(dt) ==
    IF dt.m > 1 THEN [y |-> dt.y, m |-> dt.m - 1, d |-> DaysInMonth(dt.y, dt.m - 1)]
    ELSE [y |-> dt.y - 1, m |-> 12, d |-> 31]

addMonthsNoClamp(dt, months) == SetMonth(dt, months)

addMonths(dt, months) ==
    LET moved == SetMonth(dt, months)
    IN  IF moved.d # dt.d THEN SetDateZero(moved) ELSE moved

calculateInstallmentDate(baseDate, monthsToAdd, zone) ==
    addMonths(NewDateLocal(baseDate, zone), monthsToAdd)

(* The date the documentation promises: k calendar months later, same day  *)
(* of the month or the last day of a shorter month.                        *)
MonthsLater(baseDate, k) ==
    LET idx == (baseDate.m - 1) + k
        yy  == baseDate.y + (idx \div 12)
        mm  == (idx % 12) + 1
        dim == DaysInMonth(yy, mm)
    IN  [y |-> yy, m |-> mm, d |-> IF baseDate.d < dim THEN baseDate.d ELSE dim]

BaseDates ==
    {dt \in [y : Years, m : 1..12, d : 1..31] : IsCalendarDate(dt)}

----------------------------------------------------------------------------
(* Sessions: CacheService entries and the token check *)

SESSION_DURATION == 6 * 60 * 60
MAX_LOGIN_ATTEMPTS == 5
ATTEMPTS_TTL == 3600

NoToken == <<>>
ForgedToken == <<"tok", 0>>
Token(n) == <<"tok", n>>

(* cache.get(key): the value, while the entry has not expired *)
CacheLive(c, key, now) == c[key].live /\ now < c[key].exp

CachePut(c, key, value, ttl, now) ==
    [c EXCEPT ![key] = [live |-> TRUE, val |-> value, exp |-> now + ttl]]

CacheRemove(c, key) == [c EXCEPT ![key] = NoEntry]

constantTimeCompare(a, b) ==
    /\ Len(a) = Len(b)
    /\ \A i \in 1..Len(a) : a[i] = b[i]

isAuthenticatedAnyStored(token, c, now) ==
    /\ token # NoToken
    /\ CacheLive(c, "session_token", now)

isAuthenticated(token, c, now) ==
    /\ token # NoToken
    /\ CacheLive(c, "session_token", now)
    /\ constantTimeCompare(token, c.session_token.val)

validateSession(token) == isAuthenticated(token, cache, clock)

SessionMessage == "Sessao invalida ou expirada"

----------------------------------------------------------------------------
(* Sheet helpers *)

MAX_TRANSACTIONS == 50000
MAX_INSTALLMENTS == 60
MaxDescription == 500
MaxAmount == 1000000000

(* amount > limit, for an amount in thousandths and a limit in units *)
AmountExceeds(milli, limit) ==
    \/ milli \div 1000 > limit
    \/ milli \div 1000 = limit /\ milli % 1000 > 0

getDataRowCount(rows) == Len(rows)

(* getNextId: 1 on a sheet with only the header, else the id of the last   *)
(* row plus one.                                                           *)
getNextId(rows) ==
    IF Len(rows) = 0 THEN 1 ELSE rows[Len(rows)].id + 1

RECURSIVE TrimLeft(_)
TrimLeft(s) ==
    IF s = <<>> THEN s
    ELSE IF Head(s) = " " THEN TrimLeft(Tail(s)) ELSE s

RECURSIVE TrimRight(_)
TrimRight(s) ==
    IF s = <<>> THEN s
    ELSE IF s[Len(s)] = " " THEN TrimRight(SubSeq(s, 1, Len(s) - 1)) ELSE s

Trim(s) == TrimRight(TrimLeft(s))

Substring(s, n) == IF Len(s) <= n THEN s ELSE SubSeq(s, 1, n)

(* Math.round(amount * 100) of an amount held in thousandths *)
RoundCents(milli) == (milli + 5) \div 10

(* cents / 100, back in thousandths *)
CentsToAmount(cents) == cents * 10

----------------------------------------------------------------------------
(* Transactions *)

validateCategory(categoryName, type) ==
    \E i \in 1..Len(catRows) :
        /\ catRows[i].name = categoryName
        /\ catRows[i].type = type
        /\ catRows[i].active

(* validateTransactionData: the first failing check decides the message *)
validateTransactionData(data) ==
    IF ~IsCalendarDate(data.date) THEN "Data invalida"
    ELSE IF data.type \notin {"debit", "credit"} THEN "Tipo invalido"
    ELSE IF ~validateCategory(data.category, data.type) THEN "Categoria nao encontrada ou inativa"
    ELSE IF Trim(data.description) = <<>> THEN "Descricao e obrigatoria"
    ELSE IF Len(Trim(data.description)) > MaxDescription THEN "Descricao longa"
    ELSE IF data.amount <= 0 THEN "Valor deve ser maior que zero"
    ELSE IF AmountExceeds(data.amount, MaxAmount) THEN "Valor excede limite maximo"
    ELSE IF data.hasInstallments /\ data.installments < 1 THEN "Parcelas minimo 1"
    ELSE IF data.hasInstallments /\ data.installments > MAX_INSTALLMENTS THEN "Parcelas maximo"
    ELSE "OK"

sanitizeTransactionData(data) ==
    [date |-> data.date,
     type |-> data.type,
     category |-> data.category,
     description |-> Substring(Trim(data.description), MaxDescription),
     amount |-> data.amount]

installmentCentsOf(totalCents, installments) == totalCents \div installments

lastInstallmentCentsNoAdjust(totalCents, installments) ==
    totalCents \div installments

lastInstallmentCentsOf(totalCents, installments) ==
    totalCents - (installmentCentsOf(totalCents, installments) * (installments - 1))

installmentNumberConst(i) == 1

installmentNumberOf(i) == i

(* The rows createInstallmentTransactions prepares in its loop.  Every     *)
(* getNextId call of the loop reads the sheet before the batch is written. *)
installmentBatch(rows, sanitized, installments, parentId, zone) ==
    LET totalCents == RoundCents(sanitized.amount)
        each == installmentCentsOf(totalCents, installments)
        last == lastInstallmentCentsOf(totalCents, installments)
    IN  [i \in 1..installments |->
            [id |-> getNextId(rows),
             date |-> calculateInstallmentDate(sanitized.date, i - 1, zone),
             type |-> sanitized.type,
             category |-> sanitized.category,
             description |-> [text |-> sanitized.description,
                              suffix |-> <<installmentNumberOf(i), installments>>],
             amount |-> CentsToAmount(IF i = installments THEN last ELSE each),
             installments |-> installments,
             installmentNumber |-> installmentNumberOf(i),
             parentId |-> parentId,
             importBatchId |-> 0,
             importHash |-> <<>>,
             importSource |-> <<>>,
             importAccount |-> <<>>]]

singleRow(rows, sanitized) ==
    [id |-> getNextId(rows),
     date |-> sanitized.date,
     type |-> sanitized.type,
     category |-> sanitized.category,
     description |-> [text |-> sanitized.description, suffix |-> <<>>],
     amount |-> sanitized.amount,
     installments |-> 1,
     installmentNumber |-> 1,
     parentId |-> 0,
     importBatchId |-> 0,
     importHash |-> <<>>,
     importSource |-> <<>>,
     importAccount |-> <<>>]

(* getInstallmentGroup: the rows carrying parentId, by installment number *)
RECURSIVE SelectRows(_, _)
SelectRows(rows, parentId) ==
    IF rows = <<>> THEN <<>>
    ELSE IF Head(rows).parentId = parentId
         THEN <<Head(rows)>> \o SelectRows(Tail(rows), parentId)
         ELSE SelectRows(Tail(rows), parentId)

RECURSIVE InsertByNumber(_, _)
InsertByNumber(sorted, row) ==
    IF sorted = <<>> THEN <<row>>
    ELSE IF row.installmentNumber < Head(sorted).installmentNumber
         THEN <<row>> \o sorted
         ELSE <<Head(sorted)>> \o InsertByNumber(Tail(sorted), row)

RECURSIVE SortByNumber(_)
SortByNumber(rows) ==
    IF rows = <<>> THEN <<>>
    ELSE InsertByNumber(SortByNumber(SubSeq(rows, 1, Len(rows) - 1)), rows[Len(rows)])

getInstallmentGroup(parentId) == SortByNumber(SelectRows(txRows, parentId))

Failure(name, token, message) ==
    [op |-> name, token |-> token, ok |-> FALSE, message |-> message]

(* createTransaction, with the createInstallmentTransactions it delegates  *)
(* to when installments > 1.                                               *)
createTransaction(token, data) ==
    IF ~validateSession(token) THEN
        /\ lastOp' = Failure("createTransaction", token, SessionMessage)
        /\ UNCHANGED <<txRows, logCount, dataVersion, uuidCount>>
    ELSE IF getDataRowCount(txRows) >= MAX_TRANSACTIONS THEN
        /\ logCount < MaxLogs
        /\ logCount' = logCount + 1
        /\ lastOp' = Failure("createTransaction", token, "Limite atingido")
        /\ UNCHANGED <<txRows, dataVersion, uuidCount>>
    ELSE IF validateTransactionData(data) # "OK" THEN
        /\ logCount < MaxLogs
        /\ logCount' = logCount + 1
        /\ lastOp' = Failure("createTransaction", token, validateTransactionData(data))
        /\ UNCHANGED <<txRows, dataVersion, uuidCount>>
    ELSE IF data.hasInstallments /\ data.installments > 1 THEN
        IF getDataRowCount(txRows) + data.installments > MAX_TRANSACTIONS THEN
            /\ lastOp' = Failure("createTransaction", token, "Limite atingido")
            /\ UNCHANGED <<txRows, logCount, dataVersion, uuidCount>>
        ELSE
            LET parentId == uuidCount + 1
                batch == installmentBatch(txRows, sanitizeTransactionData(data),
                                          data.installments, parentId, tz)
            IN  /\ logCount < MaxLogs
                /\ uuidCount' = uuidCount + 1
                /\ txRows' = txRows \o batch
                /\ logCount' = logCount + 1
                /\ dataVersion' = [dataVersion EXCEPT !.transactions = @ + 1]
                /\ lastOp' = [op |-> "createTransaction", token |-> token,
                              ok |-> TRUE, data |-> data,
                              parentId |-> parentId,
                              installmentIds |-> [i \in 1..Len(batch) |-> batch[i].id]]
    ELSE
        /\ logCount < MaxLogs
        /\ txRows' = Append(txRows, singleRow(txRows, sanitizeTransactionData(data)))
        /\ logCount' = logCount + 1
        /\ dataVersion' = [dataVersion EXCEPT !.transactions = @ + 1]
        /\ lastOp' = [op |-> "createTransaction", token |-> token,
                      ok |-> TRUE, data |-> data, parentId |-> 0,
                      installmentIds |-> <<getNextId(txRows)>>]
        /\ UNCHANGED uuidCount

Tokens == {NoToken, ForgedToken, Token(1)}

TxDates == {[y |-> 2024, m |-> 1, d |-> 31], [y |-> 2023, m |-> 12, d |-> 15]}
TxDescriptions == {<<"a">>, <<" ", "b", " ">>}
TxAmounts == {10, 1006}
TxInstallments ==
    {[hasInstallments |-> FALSE, installments |-> 0]} \cup
    {[hasInstallments |-> TRUE, installments |-> n] : n \in 1..MaxInstallmentsTried}

ValidTxInputs ==
    {[date |-> dt, type |-> "debit", category |-> "Alimentacao", description |-> ds,
      amount |-> a, hasInstallments |-> n.hasInstallments,
      installments |-> n.installments] :
        dt \in TxDates, ds \in TxDescriptions, a \in TxAmounts, n \in TxInstallments}

SampleTx ==
    [date |-> [y |-> 2024, m |-> 1, d |-> 31], type |-> "credit",
     category |-> "Salario", description |-> <<"a">>, amount |-> 10000,
     hasInstallments |-> TRUE, installments |-> 2]

(* One input for each check of validateTransactionData that can fail *)
InvalidTxInputs ==
    {[SampleTx EXCEPT !.date = [y |-> 2023, m |-> 2, d |-> 30]],
     [SampleTx EXCEPT !.type = "transfer"],
     [SampleTx EXCEPT !.category = "Lazer", !.type = "debit"],
     [SampleTx EXCEPT !.category = "Alimentacao"],
     [SampleTx EXCEPT !.description = <<" ">>],
     [SampleTx EXCEPT !.amount = 0],
     [SampleTx EXCEPT !.installments = 0],
     [SampleTx EXCEPT !.installments = MAX_INSTALLMENTS + 1]}

TxInputs == ValidTxInputs \cup {SampleTx} \cup InvalidTxInputs

(* Rows of the Categories sheet that populateDefaultCategories wrote, the   *)
(* category Lazer deactivated since                                        *)
SampleCategories ==
    <<[id |-> 1, type |-> "debit", name |-> "Alimentacao", active |-> TRUE],
      [id |-> 6, type |-> "debit", name |-> "Lazer", active |-> FALSE],
      [id |-> 10, type |-> "credit", name |-> "Salario", active |-> TRUE]>>

LoggedIn ==
    /\ clock = 0
    /\ cache = [session_token |-> [live |-> TRUE, val |-> Token(1), exp |-> SESSION_DURATION],
                login_attempts |-> NoEntry, account_locked |-> NoEntry]
    /\ tokenCount = 1
    /\ audit = [logins |-> <<[at |-> 0, logoutSince |-> FALSE]>>, revoked |-> {}]

InitInstall ==
    /\ LoggedIn
    /\ props = [configured |-> FALSE]
    /\ txRows = <<>>
    /\ importColumns = FALSE
    /\ catRows = SampleCategories
    /\ invRows = <<>>
    /\ logCount = 0
    /\ dataVersion = [transactions |-> 0, categories |-> 0, investments |-> 0]
    /\ uuidCount = 0
    /\ tz \in TimeZoneOffsets
    /\ backups = 0
    /\ sheets = ConfiguredSheets
    /\ settingsRows = <<>>
    /\ procs = NoProcs
    /\ lock = 0
    /\ lastOp = [op |-> "none"]

CreateTransaction ==
    /\ \E token \in Tokens :
          \E data \in (IF validateSession(token) THEN TxInputs ELSE {SampleTx}) :
              createTransaction(token, data)
    /\ UNCHANGED <<clock, cache, props, importColumns, catRows, invRows, tokenCount,
                   tz, audit,
                   backups,
                   sheets, settingsRows, procs, lock>>

NextInstall == CreateTransaction

SpecInstall == InitInstall /\ [][NextInstall]_vars

RECURSIVE SumCents(_)
SumCents(rows) ==
    IF rows = <<>> THEN 0 ELSE RoundCents(Head(rows).amount) + SumCents(Tail(rows))

InstallmentCreated ==
    /\ lastOp.op = "createTransaction"
    /\ lastOp.ok
    /\ lastOp.parentId # 0

(* C1: the amounts of the N rows of an installment purchase, in cents, sum *)
(* exactly to round(A*100); the first N-1 are floor(round(A*100)/N) and    *)
(* the last receives the remainder.                                        *)
C1_InstallmentSum ==
    InstallmentCreated =>
        LET group == getInstallmentGroup(lastOp.parentId)
            n == lastOp.data.installments
            total == RoundCents(lastOp.data.amount)
        IN  /\ Len(group) = n
            /\ SumCents(group) = total
            /\ \A i \in 1..(n - 1) : RoundCents(group[i].amount) = total \div n
            /\ RoundCents(group[n].amount) = total - (n - 1) * (total \div n)

C1_Witness ==
    /\ InstallmentCreated
    /\ lastOp.data.installments = 3
    /\ RoundCents(lastOp.data.amount) % 3 # 0

(* C2: the N rows of one installment purchase carry the same non-empty     *)
(* parentTransactionId, installments = N, installmentNumber 1..N each once *)
(* and the description '<description> (i/N)'.                              *)
C2_InstallmentsLinked ==
    InstallmentCreated =>
        LET group == getInstallmentGroup(lastOp.parentId)
            n == lastOp.data.installments
        IN  /\ Len(group) = n
            /\ \A i \in 1..n :
                /\ group[i].parentId = lastOp.parentId
                /\ group[i].installments = n
                /\ group[i].installmentNumber = i
                /\ group[i].description =
                       [text |-> Trim(lastOp.data.description), suffix |-> <<i, n>>]

C2_Witness ==
    /\ InstallmentCreated
    /\ lastOp.data.installments = 3
    /\ Len(txRows) > 3
    /\ lastOp.data.description # Trim(lastOp.data.description)

----------------------------------------------------------------------------
(* Authentication: login, logout, rate limiting *)

MaxTicks == 7
MaxLoginLogs == 7
MaxTokens == 2
LOCK_THRESHOLD == 10

TickSeconds == ATTEMPTS_TTL

DefaultPassword == "admin123"
Passwords == {"", DefaultPassword, "wrong"}

(* hashPassword: SHA-256 of password + salt, taken as injective *)
hashPassword(password, salt) == <<password, salt>>

getStoredCredentials(p) == p

(* parseInt(cache.get(cacheKey) || '0') *)
LoginAttempts(c, now) ==
    IF CacheLive(c, "login_attempts", now) THEN c.login_attempts.val ELSE 0

AccountLocked(c, now) == CacheLive(c, "account_locked", now)

attemptsOverLimitStrict(attempts) == attempts > MAX_LOGIN_ATTEMPTS

attemptsOverLimit(attempts) == attempts >= MAX_LOGIN_ATTEMPTS

(* checkRateLimit: "locked", "lock" (stores the account lock), "limit" or  *)
(* "allowed"                                                               *)
checkRateLimit(c, now) ==
    IF AccountLocked(c, now) THEN "locked"
    ELSE IF LoginAttempts(c, now) >= LOCK_THRESHOLD THEN "lock"
    ELSE IF attemptsOverLimit(LoginAttempts(c, now)) THEN "limit"
    ELSE "allowed"

incrementLoginAttempts(c, now) ==
    CachePut(c, "login_attempts", LoginAttempts(c, now) + 1, ATTEMPTS_TTL, now)

resetLoginAttempts(c) ==
    CacheRemove(CacheRemove(c, "login_attempts"), "account_locked")

storeSessionForAnHour(c, token, now) ==
    CachePut(c, "session_token", token, ATTEMPTS_TTL, now)

(* cache.put('session_token', token, SESSION_DURATION) *)
storeSession(c, token, now) ==
    CachePut(c, "session_token", token, SESSION_DURATION, now)

LoginResult(password, ok, message, compared, token) ==
    [op |-> "login", password |-> password, ok |-> ok, message |-> message,
     compared |-> compared, token |-> token]

login(password) ==
    IF password = "" THEN
        /\ logCount' = logCount + 1
        /\ lastOp' = LoginResult(password, FALSE, "Senha e obrigatoria", FALSE, NoToken)
        /\ UNCHANGED <<cache, tokenCount, audit>>
    ELSE IF checkRateLimit(cache, clock) # "allowed" THEN
        /\ cache' = IF checkRateLimit(cache, clock) = "lock"
                    THEN CachePut(cache, "account_locked", TRUE, ATTEMPTS_TTL, clock)
                    ELSE cache
        /\ logCount' = IF checkRateLimit(cache, clock) = "lock"
                       THEN logCount + 2 ELSE logCount + 1
        /\ lastOp' = LoginResult(password, FALSE, "Rate limit excedido", FALSE, NoToken)
        /\ UNCHANGED <<tokenCount, audit>>
    ELSE IF ~getStoredCredentials(props).configured THEN
        /\ logCount' = logCount + 1
        /\ lastOp' = LoginResult(password, FALSE, "Sistema nao configurado", FALSE, NoToken)
        /\ UNCHANGED <<cache, tokenCount, audit>>
    ELSE IF ~constantTimeCompare(hashPassword(password, getStoredCredentials(props).salt),
                                 getStoredCredentials(props).hash) THEN
        /\ cache' = incrementLoginAttempts(cache, clock)
        /\ logCount' = logCount + 1
        /\ lastOp' = LoginResult(password, FALSE, "Senha incorreta", TRUE, NoToken)
        /\ UNCHANGED <<tokenCount, audit>>
    ELSE
        /\ tokenCount < MaxTokens
        /\ tokenCount' = tokenCount + 1
        /\ cache' = resetLoginAttempts(
                        storeSession(cache, Token(tokenCount + 1), clock))
        /\ logCount' = logCount + 1
        /\ audit' = [audit EXCEPT
                        !.logins = Append(@, [at |-> clock, logoutSince |-> FALSE])]
        /\ lastOp' = LoginResult(password, TRUE, "Login realizado com sucesso", TRUE,
                                 Token(tokenCount + 1))

logoutCacheKeep(c) == c

logoutCache(c) == CacheRemove(c, "session_token")

logout(token) ==
    IF token = NoToken THEN
        /\ lastOp' = Failure("logout", token, "Token invalido")
        /\ UNCHANGED <<cache, logCount, audit>>
    ELSE
        /\ logCount < MaxLoginLogs
        /\ cache' = logoutCache(cache)
        /\ logCount' = logCount + 1
        /\ audit' = [logins |-> [i \in 1..Len(audit.logins) |->
                                    [audit.logins[i] EXCEPT !.logoutSince = TRUE]],
                     revoked |-> audit.revoked \cup {token}]
        /\ lastOp' = [op |-> "logout", token |-> token, ok |-> TRUE,
                      message |-> "Logout realizado com sucesso"]

IssuedTokens == {Token(n) : n \in 1..tokenCount}

InitAuth ==
    /\ clock = 0
    /\ cache = [session_token |-> NoEntry, login_attempts |-> NoEntry,
                account_locked |-> NoEntry]
    /\ props \in {[configured |-> FALSE],
                  [configured |-> TRUE, salt |-> "s1",
                   hash |-> hashPassword(DefaultPassword, "s1")]}
    /\ txRows = <<>>
    /\ importColumns = FALSE
    /\ catRows = SampleCategories
    /\ invRows = <<>>
    /\ logCount = 0
    /\ dataVersion = [transactions |-> 0, categories |-> 0, investments |-> 0]
    /\ uuidCount = 0
    /\ tokenCount = 0
    /\ tz = 0
    /\ audit = NoAudit
    /\ backups = 0
    /\ sheets = ConfiguredSheets
    /\ settingsRows = <<>>
    /\ procs = NoProcs
    /\ lock = 0
    /\ lastOp = [op |-> "none"]

Login ==
    /\ logCount < MaxLoginLogs
    /\ \E password \in Passwords : login(password)
    /\ UNCHANGED <<clock, props, txRows, importColumns, catRows, invRows, dataVersion,
                   uuidCount, tz,
                   backups,
                   sheets, settingsRows, procs, lock>>

Logout ==
    /\ \E token \in {NoToken, ForgedToken} \cup IssuedTokens : logout(token)
    /\ UNCHANGED <<clock, props, txRows, importColumns, catRows, invRows, dataVersion,
                   uuidCount, tokenCount, tz,
                   backups,
                   sheets, settingsRows, procs, lock>>

Tick ==
    /\ clock < MaxTicks * TickSeconds
    /\ clock' = clock + TickSeconds
    /\ UNCHANGED <<cache, props, txRows, importColumns, catRows, invRows, logCount,
                   dataVersion, lastOp, uuidCount, tokenCount, tz, audit,
                   backups,
                   sheets, settingsRows, procs, lock>>

NextAuth == Login \/ Logout \/ Tick

SpecAuth == InitAuth /\ [][NextAuth]_vars

(* C8 as stated: a token returned by a successful login is accepted until  *)
(* logout is called or SESSION_DURATION has elapsed since that login.      *)
C8_AcceptedUntilLogoutOrExpiry ==
    \A n \in 1..tokenCount :
        (/\ ~audit.logins[n].logoutSince
         /\ clock < audit.logins[n].at + SESSION_DURATION)
            => isAuthenticated(Token(n), cache, clock)

(* C8 amended: the token of the latest successful login is accepted until  *)
(* logout is called or SESSION_DURATION has elapsed since that login.      *)
C8_LatestAcceptedUntilLogoutOrExpiry ==
    \A n \in 1..tokenCount :
        (/\ n = tokenCount
         /\ ~audit.logins[n].logoutSince
         /\ clock < audit.logins[n].at + SESSION_DURATION)
            => isAuthenticated(Token(n), cache, clock)

C8_Witness ==
    /\ tokenCount = 2
    /\ ~audit.logins[2].logoutSince
    /\ audit.logins[2].at > 0
    /\ clock = audit.logins[2].at + SESSION_DURATION - TickSeconds
    /\ isAuthenticated(Token(2), cache, clock)

(* C9: a token given to a successful logout is never authenticated again,  *)
(* also after a new login has issued a different token.                    *)
C9_LogoutInvalidates ==
    \A token \in audit.revoked : ~isAuthenticated(token, cache, clock)

C9_Witness ==
    /\ Token(1) \in audit.revoked
    /\ tokenCount = 2
    /\ isAuthenticated(Token(2), cache, clock)

LoginStep == lastOp'.op = "login" /\ logCount' # logCount

(* C10: once MAX_LOGIN_ATTEMPTS failed attempts are recorded, every login  *)
(* call is rejected without comparing the password, also with the correct  *)
(* password, until the attempts counter expires.                           *)
C10_RateLimited ==
    [][/\ (LoginStep /\ LoginAttempts(cache, clock) >= MAX_LOGIN_ATTEMPTS)
            => (/\ ~lastOp'.ok
                /\ ~lastOp'.compared
                /\ cache'.session_token = cache.session_token)
       /\ (/\ LoginStep
           /\ lastOp'.password # ""
           /\ props.configured
           /\ ~CacheLive(cache, "login_attempts", clock)
           /\ ~AccountLocked(cache, clock))
            => lastOp'.compared]_vars

C10_Witness ==
    /\ lastOp.op = "login"
    /\ lastOp.password = DefaultPassword
    /\ props.configured
    /\ ~lastOp.ok
    /\ lastOp.message = "Rate limit excedido"
    /\ LoginAttempts(cache, clock) = MAX_LOGIN_ATTEMPTS

----------------------------------------------------------------------------
(* Statement import: CSV rows, the dedup hash and statementImportCommit *)

MaxImports == 2
MaxCsvRows == 2

LowerChar(ch) ==
    IF ch = "A" THEN "a" ELSE IF ch = "B" THEN "b" ELSE IF ch = "C" THEN "c" ELSE ch

ToLowerCase(str) == [i \in 1..Len(str) |-> LowerChar(str[i])]

(* statementImportParseDate_: 'YYYY-MM-DD' is kept, 'DD/MM/YYYY' is        *)
(* rewritten to it; anything else gives ''.                                *)
statementImportParseDate(cell) ==
    IF cell.format \in {"iso", "br"}
    THEN [valid |-> TRUE, date |-> [y |-> cell.y, m |-> cell.m, d |-> cell.d]]
    ELSE [valid |-> FALSE]

Abs(n) == IF n < 0 THEN 0 - n ELSE n

(* statementImportParseRow_ with an amount column: the sign gives the type *)
statementImportParseRow(row) ==
    LET parsedDate == statementImportParseDate(row.date)
        type == IF row.amount < 0 THEN "debit" ELSE "credit"
        amount == Abs(row.amount)
        description == Trim(row.description)
    IN  [date |-> IF parsedDate.valid THEN parsedDate.date ELSE [y |-> 0, m |-> 0, d |-> 0],
         type |-> type,
         description |-> description,
         amount |-> amount,
         category |-> "",
         valid |-> parsedDate.valid /\ description # <<>> /\ amount > 0]

statementImportParse(csv) == [i \in 1..Len(csv) |-> statementImportParseRow(csv[i])]

(* statementImportApplyOverride_ without an override, then the default     *)
(* category of the type and the category check of the commit loop.         *)
resolveItem(item, defaults) ==
    LET category == IF item.category # "" THEN item.category
                    ELSE IF item.type = "debit" THEN defaults.debitCategory
                    ELSE defaults.creditCategory
    IN  [item EXCEPT
            !.category = category,
            !.valid = /\ item.valid
                      /\ category # ""
                      /\ validateCategory(category, item.type)]

(* statementImportComputeHash_: the digest of the fields joined with '|',  *)
(* taken as injective on the joined text.                                  *)
statementImportComputeHash(item, source, account) ==
    <<item.date, item.type, item.amount, "|">>
        \o ToLowerCase(Trim(item.description)) \o <<"|">>
        \o ToLowerCase(Trim(account)) \o <<"|">>
        \o ToLowerCase(Trim(source))

statementImportGetExistingImportHashes(rows) ==
    {rows[i].importHash : i \in {k \in 1..Len(rows) : rows[k].importHash # <<>>}}

IsDuplicateExistingOnly(hash, seenInBatch, existingHashes) ==
    hash \in existingHashes

IsDuplicate(hash, seenInBatch, existingHashes) ==
    hash \in seenInBatch \/ hash \in existingHashes

(* The loop of statementImportCommit over the parsed items, kept as the    *)
(* accumulator [rows, seen, nextId, skippedInvalid, skippedDuplicates].    *)
RECURSIVE importLoop(_, _, _, _, _)
importLoop(items, k, acc, existingHashes, ctx) ==
    IF k > Len(items) THEN acc
    ELSE
        LET resolved == resolveItem(items[k], ctx.defaults)
            hash == statementImportComputeHash(resolved, ctx.source, ctx.account)
        IN  IF ~resolved.valid THEN
                importLoop(items, k + 1,
                           [acc EXCEPT !.skippedInvalid = @ + 1],
                           existingHashes, ctx)
            ELSE IF IsDuplicate(hash, acc.seen, existingHashes) THEN
                importLoop(items, k + 1,
                           [acc EXCEPT !.skippedDuplicates = @ + 1],
                           existingHashes, ctx)
            ELSE
                importLoop(items, k + 1,
                           [acc EXCEPT
                               !.seen = @ \cup {hash},
                               !.nextId = @ + 1,
                               !.rows = Append(@,
                                   [id |-> acc.nextId,
                                    date |-> resolved.date,
                                    type |-> resolved.type,
                                    category |-> resolved.category,
                                    description |-> [text |-> resolved.description,
                                                     suffix |-> <<>>],
                                    amount |-> resolved.amount,
                                    installments |-> 1,
                                    installmentNumber |-> 1,
                                    parentId |-> 0,
                                    importBatchId |-> ctx.batchId,
                                    importHash |-> hash,
                                    importSource |-> Trim(ctx.source),
                                    importAccount |-> Trim(ctx.account)])],
                           existingHashes, ctx)

addRows(rows, newRows) == rows \o newRows

statementImportCommit(token, csv, options) ==
    IF ~validateSession(token) THEN
        /\ lastOp' = Failure("statementImportCommit", token, SessionMessage)
        /\ UNCHANGED <<txRows, importColumns, logCount, dataVersion, uuidCount>>
    ELSE IF csv = <<>> THEN
        /\ lastOp' = Failure("statementImportCommit", token, "CSV vazio")
        /\ UNCHANGED <<txRows, importColumns, logCount, dataVersion, uuidCount>>
    ELSE
        LET items == statementImportParse(csv)
            existingHashes == statementImportGetExistingImportHashes(txRows)
            lastId == IF Len(txRows) > 0 THEN txRows[Len(txRows)].id ELSE 0
            ctx == [defaults |-> options.defaults, source |-> options.source,
                    account |-> options.account, batchId |-> uuidCount + 1]
            done == importLoop(items, 1,
                               [rows |-> <<>>, seen |-> {}, nextId |-> lastId + 1,
                                skippedInvalid |-> 0, skippedDuplicates |-> 0],
                               existingHashes, ctx)
        IN  /\ uuidCount < MaxImports
            /\ importColumns' = TRUE
            /\ uuidCount' = uuidCount + 1
            /\ IF done.rows = <<>> THEN
                   /\ lastOp' = [op |-> "statementImportCommit", token |-> token,
                                 ok |-> FALSE, csv |-> csv, options |-> options,
                                 created |-> 0,
                                 skippedInvalid |-> done.skippedInvalid,
                                 skippedDuplicates |-> done.skippedDuplicates]
                   /\ UNCHANGED <<txRows, logCount, dataVersion>>
               ELSE
                   /\ txRows' = addRows(txRows, done.rows)
                   /\ logCount' = logCount + 1
                   /\ dataVersion' = [dataVersion EXCEPT !.transactions = @ + 1]
                   /\ lastOp' = [op |-> "statementImportCommit", token |-> token,
                                 ok |-> TRUE, csv |-> csv, options |-> options,
                                 created |-> Len(done.rows),
                                 skippedInvalid |-> done.skippedInvalid,
                                 skippedDuplicates |-> done.skippedDuplicates]

CsvCells ==
    {[date |-> [format |-> "iso", y |-> 2024, m |-> 1, d |-> 31],
      description |-> <<"A", "b">>, amount |-> 0 - 10000],
     [date |-> [format |-> "br", y |-> 2024, m |-> 1, d |-> 31],
      description |-> <<" ", "a", "b">>, amount |-> 0 - 10000],
     [date |-> [format |-> "text", y |-> 0, m |-> 0, d |-> 0],
      description |-> <<"c">>, amount |-> 5000]}

CsvFiles ==
    UNION {[1..n -> CsvCells] : n \in 0..MaxCsvRows}

ImportDefaults == [debitCategory |-> "Alimentacao", creditCategory |-> "Salario"]

ImportOptions ==
    {[source |-> src, account |-> <<"x">>, defaults |-> ImportDefaults] :
        src \in {<<"b">>, <<"B", " ">>, <<"c">>}}

InitImport ==
    /\ LoggedIn
    /\ props = [configured |-> FALSE]
    /\ txRows \in {<<>>, <<singleRow(<<>>, sanitizeTransactionData(SampleTx))>>}
    /\ importColumns = FALSE
    /\ catRows = SampleCategories
    /\ invRows = <<>>
    /\ logCount = 0
    /\ dataVersion = [transactions |-> 0, categories |-> 0, investments |-> 0]
    /\ uuidCount = 0
    /\ tz = 0
    /\ backups = 0
    /\ sheets = ConfiguredSheets
    /\ settingsRows = <<>>
    /\ procs = NoProcs
    /\ lock = 0
    /\ lastOp = [op |-> "none"]

StatementImportCommit ==
    /\ \E token \in Tokens :
          \E csv \in (IF validateSession(token) THEN CsvFiles ELSE {<<>>}),
             options \in (IF validateSession(token) THEN ImportOptions
                          ELSE {CHOOSE o \in ImportOptions : TRUE}) :
              statementImportCommit(token, csv, options)
    /\ UNCHANGED <<clock, cache, props, catRows, invRows, tokenCount, tz, audit,
                   backups,
                   sheets, settingsRows, procs, lock>>

NextImport == StatementImportCommit

SpecImport == InitImport /\ [][NextImport]_vars

NoDuplicateImportHash ==
    \A i, j \in 1..Len(txRows) :
        (i # j /\ txRows[i].importHash # <<>>)
            => txRows[i].importHash # txRows[j].importHash

(* The call got as far as the loop over the items *)
ImportRan(result) ==
    result.op = "statementImportCommit" /\ "created" \in DOMAIN result

ImportStep == ImportRan(lastOp') /\ uuidCount' # uuidCount

(* The valid items of a commit whose hash is in the sheet or occurred      *)
(* earlier in the same file.                                                *)
DuplicateItems(csv, options, rows) ==
    LET items == [k \in 1..Len(csv) |->
                     resolveItem(statementImportParseRow(csv[k]), options.defaults)]
        hashOf(k) == statementImportComputeHash(items[k], options.source, options.account)
    IN  {k \in 1..Len(csv) :
            /\ items[k].valid
            /\ \/ \E r \in 1..Len(rows) : rows[r].importHash = hashOf(k)
               \/ \E j \in 1..(k - 1) : items[j].valid /\ hashOf(j) = hashOf(k)}

----------------------------------------------------------------------------
(* Investments: addInvestmentTransaction and the getPortfolio accumulator. *)
(* Average cost and realized P&L are exact fractions <<numerator,          *)
(* denominator>>.                                                          *)

MaxInvRows == 3

ActiveAssets == {1}

RECURSIVE Gcd(_, _)
Gcd(a, b) == IF b = 0 THEN a ELSE Gcd(b, a % b)

Frac(n, d) ==
    LET g == Gcd(Abs(n), d)
    IN  IF n = 0 THEN <<0, 1>> ELSE <<n \div g, d \div g>>

FracAdd(a, b) == Frac(a[1] * b[2] + b[1] * a[2], a[2] * b[2])
FracSub(a, b) == Frac(a[1] * b[2] - b[1] * a[2], a[2] * b[2])
FracMulInt(a, k) == Frac(a[1] * k, a[2])
FracDivInt(a, k) == Frac(a[1], a[2] * k)
FracOfInt(k) == <<k, 1>>

Min(a, b) == IF a < b THEN a ELSE b
Max(a, b) == IF a > b THEN a ELSE b

EmptyPosition ==
    [quantity |-> 0, avgCost |-> <<0, 1>>, realizedPnL |-> <<0, 1>>,
     dividends |-> 0, fees |-> 0]

applyBuySimpleAverage(pos, q, p) ==
    [pos EXCEPT !.quantity = pos.quantity + q,
                !.avgCost = FracDivInt(FracAdd(pos.avgCost, FracOfInt(p)), 2)]

applyBuy(pos, q, p) ==
    LET prevQty == pos.quantity
        newQty == prevQty + q
        prevCost == FracMulInt(pos.avgCost, prevQty)
        newCost == FracAdd(prevCost, FracOfInt(q * p))
    IN  [pos EXCEPT !.quantity = newQty,
                    !.avgCost = IF newQty > 0 THEN FracDivInt(newCost, newQty)
                                ELSE <<0, 1>>]

applySellUnclamped(pos, q, p) ==
    LET realized == FracMulInt(FracSub(FracOfInt(p), pos.avgCost), q)
        left == pos.quantity - q
    IN  [pos EXCEPT !.realizedPnL = FracAdd(pos.realizedPnL, realized),
                    !.quantity = left,
                    !.avgCost = IF left = 0 THEN <<0, 1>> ELSE pos.avgCost]

applySell(pos, q, p) ==
    LET sellQty == Min(q, pos.quantity)
        realized == FracMulInt(FracSub(FracOfInt(p), pos.avgCost), sellQty)
        left == Max(0, pos.quantity - sellQty)
    IN  [pos EXCEPT !.realizedPnL = FracAdd(pos.realizedPnL, realized),
                    !.quantity = left,
                    !.avgCost = IF left = 0 THEN <<0, 1>> ELSE pos.avgCost]

(* One iteration of the loop of getPortfolio over the sorted rows *)
applyInvestmentTx(pos, tx) ==
    IF tx.type = "buy" THEN applyBuy(pos, tx.quantity, tx.price)
    ELSE IF tx.type = "sell" THEN applySell(pos, tx.quantity, tx.price)
    ELSE IF tx.type = "dividend" THEN [pos EXCEPT !.dividends = @ + tx.amount]
    ELSE IF tx.type = "fee" THEN [pos EXCEPT !.fees = @ + tx.amount]
    ELSE pos

(* String(a.date).localeCompare(String(b.date)) || a.id - b.id *)
DateBefore(a, b) ==
    \/ a.y < b.y
    \/ a.y = b.y /\ a.m < b.m
    \/ a.y = b.y /\ a.m = b.m /\ a.d < b.d

TxBefore(a, b) ==
    \/ DateBefore(a.date, b.date)
    \/ a.date = b.date /\ a.id < b.id

RECURSIVE InsertTx(_, _)
InsertTx(sorted, tx) ==
    IF sorted = <<>> THEN <<tx>>
    ELSE IF TxBefore(tx, Head(sorted)) THEN <<tx>> \o sorted
    ELSE <<Head(sorted)>> \o InsertTx(Tail(sorted), tx)

RECURSIVE SortTx(_)
SortTx(rows) ==
    IF rows = <<>> THEN <<>>
    ELSE InsertTx(SortTx(SubSeq(rows, 1, Len(rows) - 1)), rows[Len(rows)])

RECURSIVE SelectAsset(_, _)
SelectAsset(rows, assetId) ==
    IF rows = <<>> THEN <<>>
    ELSE IF Head(rows).investmentId = assetId
         THEN <<Head(rows)>> \o SelectAsset(Tail(rows), assetId)
         ELSE SelectAsset(Tail(rows), assetId)

(* The history of one asset in the order getPortfolio processes it *)
AssetHistory(assetId) == SelectAsset(SortTx(invRows), assetId)

RECURSIVE PositionAfter(_, _)
PositionAfter(history, k) ==
    IF k = 0 THEN EmptyPosition
    ELSE applyInvestmentTx(PositionAfter(history, k - 1), history[k])

getPortfolio(assetId) ==
    PositionAfter(AssetHistory(assetId), Len(AssetHistory(assetId)))

validateInvestmentTx(tx) ==
    IF ~IsCalendarDate(tx.date) THEN "Data e obrigatoria"
    ELSE IF tx.investmentId = 0 THEN "Selecione um ativo"
    ELSE IF tx.type \notin {"buy", "sell", "dividend", "fee"} THEN "Tipo invalido"
    ELSE IF tx.type \in {"buy", "sell"} /\ tx.quantity <= 0 THEN "Quantidade invalida"
    ELSE IF tx.type \in {"buy", "sell"} /\ tx.price < 0 THEN "Preco invalido"
    ELSE IF tx.type \in {"dividend", "fee"} /\ tx.amount <= 0 THEN "Valor invalido"
    ELSE "OK"

addInvestmentTransaction(token, tx) ==
    IF ~validateSession(token) THEN
        /\ lastOp' = Failure("addInvestmentTransaction", token, SessionMessage)
        /\ UNCHANGED <<invRows, dataVersion>>
    ELSE IF validateInvestmentTx(tx) # "OK" THEN
        /\ lastOp' = Failure("addInvestmentTransaction", token, validateInvestmentTx(tx))
        /\ UNCHANGED <<invRows, dataVersion>>
    ELSE
        /\ Len(invRows) < MaxInvRows
        /\ invRows' = Append(invRows,
               [id |-> getNextId(invRows),
                date |-> tx.date,
                investmentId |-> tx.investmentId,
                type |-> tx.type,
                quantity |-> IF tx.type \in {"buy", "sell"} THEN tx.quantity ELSE 0,
                price |-> IF tx.type \in {"buy", "sell"} THEN tx.price ELSE 0,
                amount |-> IF tx.type \in {"buy", "sell"}
                           THEN tx.quantity * tx.price ELSE tx.amount])
        /\ dataVersion' = [dataVersion EXCEPT !.investments = @ + 1]
        /\ lastOp' = [op |-> "addInvestmentTransaction", token |-> token,
                      ok |-> TRUE, id |-> getNextId(invRows)]

InvDates == {[y |-> 2024, m |-> 1, d |-> 31], [y |-> 2024, m |-> 2, d |-> 1]}

TradeLots == {<<1, 10>>, <<3, 20>>, <<2, 10>>}

TradeInputs ==
    {[date |-> dt, investmentId |-> 1, type |-> ty, quantity |-> lot[1],
      price |-> lot[2], amount |-> 0] :
        dt \in InvDates, ty \in {"buy", "sell"}, lot \in TradeLots}

SampleTrade ==
    [date |-> [y |-> 2024, m |-> 1, d |-> 31], investmentId |-> 1,
     type |-> "buy", quantity |-> 1, price |-> 10, amount |-> 0]

OtherInvInputs ==
    {[SampleTrade EXCEPT !.type = "dividend", !.amount = 5],
     [SampleTrade EXCEPT !.type = "fee", !.amount = 2],
     [SampleTrade EXCEPT !.investmentId = 2],
     [SampleTrade EXCEPT !.investmentId = 0],
     [SampleTrade EXCEPT !.type = "split"],
     [SampleTrade EXCEPT !.quantity = 0],
     [SampleTrade EXCEPT !.type = "sell", !.price = 0 - 1],
     [SampleTrade EXCEPT !.type = "fee", !.amount = 0],
     [SampleTrade EXCEPT !.date = [y |-> 2024, m |-> 0, d |-> 0]]}

InvInputs == TradeInputs \cup OtherInvInputs

InitPortfolio ==
    /\ LoggedIn
    /\ props = [configured |-> FALSE]
    /\ txRows = <<>>
    /\ importColumns = FALSE
    /\ catRows = SampleCategories
    /\ invRows = <<>>
    /\ logCount = 0
    /\ dataVersion = [transactions |-> 0, categories |-> 0, investments |-> 0]
    /\ uuidCount = 0
    /\ tz = 0
    /\ backups = 0
    /\ sheets = ConfiguredSheets
    /\ settingsRows = <<>>
    /\ procs = NoProcs
    /\ lock = 0
    /\ lastOp = [op |-> "none"]

AddInvestmentTransaction ==
    /\ \E token \in Tokens :
          \E tx \in (IF validateSession(token) THEN InvInputs ELSE {SampleTrade}) :
              addInvestmentTransaction(token, tx)
    /\ UNCHANGED <<clock, cache, props, txRows, importColumns, catRows, logCount,
                   uuidCount, tokenCount, tz, audit,
                   backups,
                   sheets, settingsRows, procs, lock>>

NextPortfolio == AddInvestmentTransaction

SpecPortfolio == InitPortfolio /\ [][NextPortfolio]_vars

(* C5: after every prefix of an asset's history the quantity is >= 0, and  *)
(* a sell of more units than are held leaves the position at exactly 0.    *)
C5_QuantityNeverNegative ==
    \A asset \in ActiveAssets :
        LET history == AssetHistory(asset)
        IN  \A k \in 0..Len(history) :
                /\ PositionAfter(history, k).quantity >= 0
                /\ (/\ k > 0
                    /\ history[k].type = "sell"
                    /\ history[k].quantity > PositionAfter(history, k - 1).quantity)
                        => PositionAfter(history, k).quantity = 0

C5_Witness ==
    \E asset \in ActiveAssets :
        LET history == AssetHistory(asset)
        IN  /\ Len(history) = 2
            /\ history[1].type = "buy"
            /\ history[1].id > history[2].id
            /\ history[2].type = "sell"
            /\ history[2].quantity > PositionAfter(history, 1).quantity
            /\ getPortfolio(asset).quantity = 0

(* C6: a buy of q at p on Q units at average cost c gives average cost     *)
(* (c*Q + q*p)/(Q + q); a sell adds (p - c) times the units actually sold  *)
(* to realizedPnL and keeps the average cost, which is reset to 0 when the *)
(* quantity reaches 0.                                                     *)
C6_AverageCost ==
    \A asset \in ActiveAssets :
        LET history == AssetHistory(asset)
        IN  \A k \in 1..Len(history) :
                LET before == PositionAfter(history, k - 1)
                    after == PositionAfter(history, k)
                    q == history[k].quantity
                    p == history[k].price
                    c == before.avgCost
                    sold == before.quantity - after.quantity
                IN  /\ history[k].type = "buy" =>
                        after.avgCost[1] * (c[2] * (before.quantity + q))
                            = (c[1] * before.quantity + q * p * c[2]) * after.avgCost[2]
                    /\ history[k].type = "sell" =>
                        /\ sold = Min(q, before.quantity)
                        /\ (after.realizedPnL[1] * before.realizedPnL[2]
                                - before.realizedPnL[1] * after.realizedPnL[2]) * c[2]
                            = (p * c[2] - c[1]) * sold
                                * (after.realizedPnL[2] * before.realizedPnL[2])
                        /\ after.avgCost = IF after.quantity = 0 THEN <<0, 1>> ELSE c

C6_Witness ==
    \E asset \in ActiveAssets :
        LET history == AssetHistory(asset)
        IN  /\ Len(history) = 3
            /\ history[1].type = "buy"
            /\ history[2].type = "buy"
            /\ history[2].price # history[1].price
            /\ history[2].quantity # history[1].quantity
            /\ history[3].type = "sell"
            /\ history[3].price # 20
            /\ getPortfolio(asset).quantity > 0
            /\ getPortfolio(asset).avgCost[2] # 1
            /\ getPortfolio(asset).realizedPnL[1] < 0

----------------------------------------------------------------------------
(* Session guard: operations of several modules called with valid,         *)
(* missing, forged, expired and logged-out tokens.                         *)

MaxBackups == 1

(* setCategoryStatus, reached through deactivateCategory / activateCategory *)
setCategoryStatus(token, id, isActive) ==
    IF ~validateSession(token) THEN
        /\ lastOp' = Failure("setCategoryStatus", token, SessionMessage)
        /\ UNCHANGED <<catRows, logCount, dataVersion>>
    ELSE IF id = 0 THEN
        /\ lastOp' = Failure("setCategoryStatus", token, "ID invalido")
        /\ UNCHANGED <<catRows, logCount, dataVersion>>
    ELSE IF ~\E i \in 1..Len(catRows) : catRows[i].id = id THEN
        /\ logCount < MaxLogs
        /\ logCount' = logCount + 1
        /\ lastOp' = Failure("setCategoryStatus", token, "Categoria nao encontrada")
        /\ UNCHANGED <<catRows, dataVersion>>
    ELSE
        LET found == CHOOSE i \in 1..Len(catRows) :
                        /\ catRows[i].id = id
                        /\ \A j \in 1..(i - 1) : catRows[j].id # id
        IN  /\ logCount < MaxLogs
            /\ catRows' = [catRows EXCEPT ![found].active = isActive]
            /\ logCount' = logCount + 1
            /\ dataVersion' = [dataVersion EXCEPT !.categories = @ + 1]
            /\ lastOp' = [op |-> "setCategoryStatus", token |-> token, ok |-> TRUE,
                          message |-> "Categoria atualizada"]

createDefaultCategories ==
    <<[id |-> 1, type |-> "credit", name |-> "Salario", active |-> TRUE],
      [id |-> 2, type |-> "credit", name |-> "Freelance", active |-> TRUE],
      [id |-> 3, type |-> "credit", name |-> "Investimentos", active |-> TRUE],
      [id |-> 4, type |-> "credit", name |-> "Outros", active |-> TRUE],
      [id |-> 5, type |-> "debit", name |-> "Alimentacao", active |-> TRUE],
      [id |-> 6, type |-> "debit", name |-> "Transporte", active |-> TRUE],
      [id |-> 7, type |-> "debit", name |-> "Saude", active |-> TRUE],
      [id |-> 8, type |-> "debit", name |-> "Educacao", active |-> TRUE],
      [id |-> 9, type |-> "debit", name |-> "Moradia", active |-> TRUE],
      [id |-> 10, type |-> "debit", name |-> "Lazer", active |-> TRUE],
      [id |-> 11, type |-> "debit", name |-> "Outros", active |-> TRUE]>>

(* createBackup. Two functions of this name exist (one without            *)
(* parameters, one that validates a token it is not given by resetSystem); *)
(* which one the call binds to depends on the load order of the files, and *)
(* the spreadsheet copy itself can fail: backupOk is either outcome.       *)
createBackup(backupOk) == [success |-> backupOk]

abortIgnored(backup) == FALSE

(* if (!backup.success) return ABORTADO *)
abortReset(backup) == ~backup.success

IsPasswordRow(row) == row.key \in {"password_hash", "password_salt"}

resetSystem(token, confirmationCode, backupOk) ==
    IF ~validateSession(token) THEN
        /\ lastOp' = [op |-> "resetSystem", token |-> token, ok |-> FALSE,
                      message |-> SessionMessage, code |-> confirmationCode]
        /\ UNCHANGED <<txRows, catRows, settingsRows, logCount, backups>>
    ELSE IF confirmationCode # "DELETE_ALL_DATA" THEN
        /\ logCount < MaxLogs
        /\ logCount' = logCount + 1
        /\ lastOp' = [op |-> "resetSystem", token |-> token, ok |-> FALSE,
                      message |-> "Confirmacao necessaria", code |-> confirmationCode]
        /\ UNCHANGED <<txRows, catRows, settingsRows, backups>>
    ELSE IF abortReset(createBackup(backupOk)) THEN
        /\ lastOp' = [op |-> "resetSystem", token |-> token, ok |-> FALSE,
                      message |-> "ABORTADO", code |-> confirmationCode]
        /\ UNCHANGED <<txRows, catRows, settingsRows, logCount, backups>>
    ELSE
        /\ backups < MaxBackups
        /\ backups' = IF createBackup(backupOk).success THEN backups + 1 ELSE backups
        /\ txRows' = <<>>
        /\ catRows' = createDefaultCategories
        /\ settingsRows' = SelectSeq(settingsRows, IsPasswordRow)
        /\ logCount' = 1
        /\ lastOp' = [op |-> "resetSystem", token |-> token, ok |-> TRUE,
                      message |-> "Sistema resetado com sucesso",
                      code |-> confirmationCode]

GuardTokens == {NoToken, ForgedToken, Token(1)}

GuardTxInputs == {SampleTx, [SampleTx EXCEPT !.hasInstallments = TRUE, !.installments = 2]}

GuardCsv ==
    <<[date |-> [format |-> "iso", y |-> 2024, m |-> 1, d |-> 31],
       description |-> <<"A", "b">>, amount |-> 0 - 10000]>>

GuardImportOptions ==
    [source |-> <<"b">>, account |-> <<"x">>, defaults |-> ImportDefaults]

InitGuard ==
    /\ LoggedIn
    /\ props = [configured |-> FALSE]
    /\ txRows = <<>>
    /\ importColumns = FALSE
    /\ catRows = SampleCategories
    /\ invRows = <<>>
    /\ logCount = 0
    /\ dataVersion = [transactions |-> 0, categories |-> 0, investments |-> 0]
    /\ uuidCount = 0
    /\ tz = 0
    /\ backups = 0
    /\ sheets = ConfiguredSheets
    /\ settingsRows = <<[key |-> "upload_folder_id", value |-> "folder"]>>
    /\ procs = NoProcs
    /\ lock = 0
    /\ lastOp = [op |-> "none"]

GuardCreateTransaction ==
    /\ \E token \in GuardTokens, data \in GuardTxInputs : createTransaction(token, data)
    /\ UNCHANGED <<clock, cache, props, importColumns, catRows, invRows, tokenCount,
                   tz, backups, audit,
                   sheets, settingsRows, procs, lock>>

GuardStatementImport ==
    /\ \E token \in GuardTokens : statementImportCommit(token, GuardCsv, GuardImportOptions)
    /\ UNCHANGED <<clock, cache, props, catRows, invRows, tokenCount, tz, backups,
                   audit,
                   sheets, settingsRows, procs, lock>>

GuardAddInvestment ==
    /\ \E token \in GuardTokens : addInvestmentTransaction(token, SampleTrade)
    /\ UNCHANGED <<clock, cache, props, txRows, importColumns, catRows, logCount,
                   uuidCount, tokenCount, tz, backups, audit,
                   sheets, settingsRows, procs, lock>>

SetCategoryStatus ==
    /\ \E token \in GuardTokens, id \in {1, 12}, isActive \in {FALSE} :
          setCategoryStatus(token, id, isActive)
    /\ UNCHANGED <<clock, cache, props, txRows, importColumns, invRows, uuidCount,
                   tokenCount, tz, backups, audit,
                   sheets, settingsRows, procs, lock>>

ResetSystem ==
    /\ \E token \in GuardTokens : resetSystem(token, "DELETE_ALL_DATA", TRUE)
    /\ UNCHANGED <<clock, cache, props, importColumns, invRows, dataVersion,
                   uuidCount, tokenCount, tz, sheets, procs, lock, audit>>

(* SESSION_DURATION seconds pass: the cache drops the session entry *)
SessionExpires ==
    /\ clock < SESSION_DURATION
    /\ clock' = clock + SESSION_DURATION
    /\ UNCHANGED <<cache, props, txRows, importColumns, catRows, invRows, logCount,
                   dataVersion, lastOp, uuidCount, tokenCount, tz, backups, audit,
                   sheets, settingsRows, procs, lock>>

NextGuard ==
    \/ GuardCreateTransaction
    \/ GuardStatementImport
    \/ GuardAddInvestment
    \/ SetCategoryStatus
    \/ ResetSystem
    \/ SessionExpires

SpecGuard == InitGuard /\ [][NextGuard]_vars

GuardedOps ==
    {"createTransaction", "statementImportCommit", "addInvestmentTransaction",
     "setCategoryStatus", "resetSystem"}

(* the token is present and is the live entry of the session cache *)
TokenIsStored(token) ==
    /\ token # NoToken
    /\ cache.session_token.live
    /\ clock < cache.session_token.exp
    /\ cache.session_token.val = token

(* a step in which one of the guarded operations returned *)
GuardedStep ==
    /\ lastOp'.op \in GuardedOps
    /\ lastOp' # lastOp
    /\ clock' = clock

(* C7: an operation called with a token that is missing or is not the      *)
(* stored session token returns a failure and leaves the sheets, the       *)
(* properties and the cache as they were.                                  *)
C7_InvalidTokenRejected ==
    [][(GuardedStep /\ ~TokenIsStored(lastOp'.token))
            => (/\ ~lastOp'.ok
                /\ UNCHANGED <<txRows, importColumns, catRows, invRows, logCount,
                               dataVersion, props, cache, uuidCount, backups,
                               sheets, settingsRows>>)]_vars

C7_Witness ==
    /\ lastOp.op = "resetSystem"
    /\ lastOp.token = Token(1)
    /\ ~lastOp.ok
    /\ lastOp.message = SessionMessage
    /\ clock >= SESSION_DURATION
    /\ Token(1) \notin audit.revoked
    /\ Len(txRows) > 0
    /\ Len(invRows) > 0

(* resetSystem with any confirmation code, the backup succeeding or not *)
ResetSystemAnyCode ==
    /\ \E token \in GuardTokens,
          confirmationCode \in {"", "delete_all_data", "DELETE_ALL_DATA"},
          backupOk \in BOOLEAN :
          resetSystem(token, confirmationCode, backupOk)
    /\ UNCHANGED <<clock, cache, props, importColumns, invRows, dataVersion,
                   uuidCount, tokenCount, tz, sheets, procs, lock, audit>>

NextReset ==
    \/ ResetSystemAnyCode
    \/ GuardCreateTransaction
    \/ GuardStatementImport
    \/ SessionExpires

SpecReset == InitGuard /\ [][NextReset]_vars

ResetStep ==
    /\ lastOp'.op = "resetSystem"
    /\ clock' = clock

(* C14: a resetSystem call deletes no row of Transactions, Categories,     *)
(* Settings or Logs unless the token is the stored session token, the code *)
(* is exactly DELETE_ALL_DATA and a backup copy was made in the same call; *)
(* when the backup fails nothing is deleted.                               *)
C14_ResetNeedsSessionCodeBackup ==
    [][ResetStep =>
        \/ /\ TokenIsStored(lastOp'.token)
           /\ lastOp'.code = "DELETE_ALL_DATA"
           /\ backups' = backups + 1
        \/ /\ txRows' = txRows
           /\ catRows' = catRows
           /\ settingsRows' = settingsRows
           /\ logCount' >= logCount]_vars

C14_Witness ==
    /\ lastOp.op = "resetSystem"
    /\ lastOp.token = Token(1)
    /\ lastOp.code = "DELETE_ALL_DATA"
    /\ lastOp.message = "ABORTADO"
    /\ backups = 0
    /\ Len(txRows) > 0
    /\ Len(settingsRows) > 0
    /\ logCount > 0

----------------------------------------------------------------------------
(* Specification of the installment calendar: the dates that               *)
(* createInstallmentTransactions gives to the rows of one purchase.        *)

InstallmentDates(baseDate, n, zone) ==
    [i \in 1..n |-> calculateInstallmentDate(baseDate, i - 1, zone)]

Idle ==
    /\ clock = 0
    /\ cache = [session_token |-> NoEntry, login_attempts |-> NoEntry,
                account_locked |-> NoEntry]
    /\ props = [configured |-> FALSE]
    /\ txRows = <<>>
    /\ importColumns = FALSE
    /\ catRows = <<>>
    /\ invRows = <<>>
    /\ logCount = 0
    /\ dataVersion = [transactions |-> 0, categories |-> 0, investments |-> 0]
    /\ uuidCount = 0
    /\ tokenCount = 0
    /\ audit = NoAudit

InitDate ==
    /\ Idle
    /\ tz \in TimeZoneOffsets
    /\ backups = 0
    /\ sheets = ConfiguredSheets
    /\ settingsRows = <<>>
    /\ procs = NoProcs
    /\ lock = 0
    /\ lastOp = [op |-> "none"]

DateInstallments ==
    /\ \E baseDate \in BaseDates, n \in 2..MaxInstallmentsTried :
          lastOp' = [op |-> "installmentDates", date |-> baseDate,
                     installments |-> n,
                     dates |-> InstallmentDates(baseDate, n, tz)]
    /\ UNCHANGED <<clock, cache, props, txRows, importColumns, catRows, invRows, logCount,
                   dataVersion, uuidCount, tokenCount, tz, audit,
                   backups,
                   sheets, settingsRows, procs, lock>>

NextDate == DateInstallments

SpecDate == InitDate /\ [][NextDate]_vars

(* C3: installment i is dated exactly i-1 calendar months after the base   *)
(* date, on the same day of the month or on the last day of a shorter      *)
(* month.                                                                  *)
C3_InstallmentDates ==
    lastOp.op = "installmentDates" =>
        \A i \in 1..lastOp.installments :
            lastOp.dates[i] = MonthsLater(lastOp.date, i - 1)

----------------------------------------------------------------------------
(* Account lock: a run of failed login calls.                              *)

MaxFailedLogins == 11

(* Every login call appends one row to Logs; here only failed calls run,   *)
(* so logCount is the number of failed login calls made so far.            *)
FailedLogin ==
    /\ logCount < MaxFailedLogins
    /\ login("wrong")
    /\ UNCHANGED <<clock, props, txRows, importColumns, catRows, invRows, dataVersion,
                   uuidCount, tz, backups,
                   sheets, settingsRows, procs, lock>>

NextLock == FailedLogin \/ Tick

SpecLock == InitAuth /\ [][NextLock]_vars

(* C11 as stated: once 10 failed login calls have been made (all at the    *)
(* same time of the clock, so nothing has expired) the account lock is     *)
(* stored.                                                                 *)
C11_LockedAfterTenFailures ==
    (props.configured /\ clock = 0 /\ logCount >= LOCK_THRESHOLD)
        => AccountLocked(cache, clock)

----------------------------------------------------------------------------
(* setup(), its sheet creators, the initial password and changePassword    *)

MaxSetupLogs == 3

Salts == {"s1", "s2"}

NewPassword == "novasenha12345"
ShortPassword == "curta1"

(* length of the password, and whether it has letters and digits *)
PasswordShape ==
    [admin123 |-> [length |-> 8, letters |-> TRUE, numbers |-> TRUE],
     novasenha12345 |-> [length |-> 14, letters |-> TRUE, numbers |-> TRUE],
     curta1 |-> [length |-> 6, letters |-> TRUE, numbers |-> TRUE]]

MinPasswordLength == 12

(* range.setValues([headers]) on the first cells of row 1 *)
WriteHeader(old, headers) ==
    headers \o (IF Len(old) > Len(headers)
                THEN SubSeq(old, Len(headers) + 1, Len(old)) ELSE <<>>)

(* createTransactionsSheet, createCategoriesSheet, createSettingsSheet and *)
(* createLogsSheet: insert the sheet when it is missing, write the header  *)
(* when the first cell is not the first column name.                       *)
createSheet(sh, name) ==
    LET sheet == IF sh[name].exists THEN sh[name]
                 ELSE [exists |-> TRUE, header |-> <<>>]
        headersExist == sheet.header # <<>> /\ sheet.header[1] = Headers[name][1]
    IN  [sh EXCEPT ![name] =
            IF headersExist THEN sheet
            ELSE [exists |-> TRUE, header |-> WriteHeader(sheet.header, Headers[name])]]

DefaultDebits ==
    <<"Alimentacao", "Transporte", "Moradia", "Saude", "Educacao", "Lazer",
      "Vestuario", "Servicos", "Outros Debitos">>

DefaultCredits ==
    <<"Salario", "Freelance", "Investimentos", "Vendas", "Outros Creditos">>

DefaultCategoryRows ==
    [i \in 1..(Len(DefaultDebits) + Len(DefaultCredits)) |->
        IF i <= Len(DefaultDebits)
        THEN [id |-> i, type |-> "debit", name |-> DefaultDebits[i], active |-> TRUE]
        ELSE [id |-> i, type |-> "credit",
              name |-> DefaultCredits[i - Len(DefaultDebits)], active |-> TRUE]]

populateDefaultCategoriesAlways(rows) == rows \o DefaultCategoryRows

populateDefaultCategories(rows) ==
    IF Len(rows) + 1 > 1 THEN rows ELSE DefaultCategoryRows

(* setupInitialPassword: looks for a password_hash row in the Settings     *)
(* sheet, writes the default credentials to the script properties          *)
setupInitialPassword(settings, p, salt) ==
    IF \E i \in 1..Len(settings) : settings[i].key = "password_hash" THEN p
    ELSE [configured |-> TRUE, salt |-> salt,
          hash |-> hashPassword(DefaultPassword, salt)]

(* all four sheets exist and carry their header *)
Configured ==
    \A n \in SheetNames :
        /\ sheets[n].exists
        /\ sheets[n].header # <<>>
        /\ sheets[n].header[1] = Headers[n][1]

setup(salt) ==
    /\ sheets' = createSheet(createSheet(createSheet(createSheet(sheets,
                     "Transactions"), "Categories"), "Settings"), "Logs")
    /\ catRows' = populateDefaultCategories(catRows)
    /\ props' = setupInitialPassword(settingsRows, props, salt)
    /\ lastOp' = [op |-> "setup", ok |-> TRUE, rerun |-> Configured,
                  message |-> "Sistema configurado com sucesso"]

changePassword(token, oldPassword, newPassword, salt) ==
    IF ~validateSession(token) THEN
        /\ lastOp' = Failure("changePassword", token, SessionMessage)
        /\ UNCHANGED <<props, logCount>>
    ELSE IF oldPassword = "" \/ newPassword = "" THEN
        /\ lastOp' = Failure("changePassword", token, "Senhas sao obrigatorias")
        /\ UNCHANGED <<props, logCount>>
    ELSE IF PasswordShape[newPassword].length < MinPasswordLength THEN
        /\ lastOp' = Failure("changePassword", token, "Nova senha curta")
        /\ UNCHANGED <<props, logCount>>
    ELSE IF ~(PasswordShape[newPassword].letters /\ PasswordShape[newPassword].numbers) THEN
        /\ lastOp' = Failure("changePassword", token, "Nova senha sem letras e numeros")
        /\ UNCHANGED <<props, logCount>>
    ELSE IF ~getStoredCredentials(props).configured THEN
        /\ lastOp' = Failure("changePassword", token, "Erro ao obter credenciais")
        /\ UNCHANGED <<props, logCount>>
    ELSE IF ~constantTimeCompare(hashPassword(oldPassword, getStoredCredentials(props).salt),
                                 getStoredCredentials(props).hash) THEN
        /\ logCount' = logCount + 1
        /\ lastOp' = Failure("changePassword", token, "Senha atual incorreta")
        /\ UNCHANGED props
    ELSE
        /\ props' = [configured |-> TRUE, salt |-> salt,
                     hash |-> hashPassword(newPassword, salt)]
        /\ logCount' = logCount + 1
        /\ lastOp' = [op |-> "changePassword", token |-> token, ok |-> TRUE,
                      message |-> "Senha alterada com sucesso"]

(* A new spreadsheet, or one set up by the version that kept the           *)
(* credentials in the Settings sheet, after they were migrated to the      *)
(* script properties.                                                      *)
InitSetup ==
    /\ clock = 0
    /\ cache = [session_token |-> NoEntry, login_attempts |-> NoEntry,
                account_locked |-> NoEntry]
    /\ \/ /\ sheets = [n \in SheetNames |-> NoSheet]
          /\ catRows = <<>>
          /\ settingsRows = <<>>
          /\ props = [configured |-> FALSE]
       \/ /\ sheets = ConfiguredSheets
          /\ catRows = DefaultCategoryRows
          /\ settingsRows = <<[key |-> "password_salt", value |-> "s1"],
                              [key |-> "password_hash",
                               value |-> hashPassword(NewPassword, "s1")]>>
          /\ props = [configured |-> TRUE, salt |-> "s1",
                      hash |-> hashPassword(NewPassword, "s1")]
    /\ txRows = <<>>
    /\ importColumns = FALSE
    /\ invRows = <<>>
    /\ logCount = 0
    /\ dataVersion = [transactions |-> 0, categories |-> 0, investments |-> 0]
    /\ uuidCount = 0
    /\ tokenCount = 0
    /\ tz = 0
    /\ backups = 0
    /\ procs = NoProcs
    /\ lock = 0
    /\ audit = NoAudit
    /\ lastOp = [op |-> "none"]

Setup ==
    /\ \E salt \in Salts : setup(salt)
    /\ UNCHANGED <<clock, cache, txRows, importColumns, invRows, logCount, dataVersion,
                   uuidCount, tokenCount, tz, backups, settingsRows, procs, lock,
                   audit>>

SetupLogin ==
    /\ Configured
    /\ logCount < MaxSetupLogs
    /\ \E password \in {DefaultPassword, NewPassword} : login(password)
    /\ UNCHANGED <<clock, props, txRows, importColumns, catRows, invRows, dataVersion,
                   uuidCount, tz, backups, sheets, settingsRows, procs, lock>>

ChangePassword ==
    /\ Configured
    /\ logCount < MaxSetupLogs
    /\ \E token \in {ForgedToken} \cup IssuedTokens,
          oldPassword \in {DefaultPassword, NewPassword},
          newPassword \in {NewPassword, ShortPassword}, salt \in Salts :
          changePassword(token, oldPassword, newPassword, salt)
    /\ UNCHANGED <<clock, cache, txRows, importColumns, catRows, invRows, dataVersion,
                   uuidCount, tokenCount, tz, backups, sheets, settingsRows, procs,
                   lock, audit>>

SetupCategoryStatus ==
    /\ Configured
    /\ \E id \in {1, 6}, isActive \in BOOLEAN : setCategoryStatus(Token(tokenCount), id, isActive)
    /\ UNCHANGED <<clock, cache, props, txRows, importColumns, invRows, uuidCount,
                   tokenCount, tz, backups, sheets, settingsRows, procs, lock, audit>>

NextSetup == Setup \/ SetupLogin \/ ChangePassword \/ SetupCategoryStatus

SpecSetup == InitSetup /\ [][NextSetup]_vars

SetupStep == lastOp'.op = "setup"

(* C12: setup() leaves the spreadsheet configured, and run on a configured *)
(* spreadsheet it succeeds and leaves the sheets, their header rows and    *)
(* the rows of the Categories sheet (and of the other sheets) as they were.*)
C12_SetupIdempotent ==
    [][SetupStep =>
        /\ Configured'
        /\ lastOp'.ok
        /\ Configured =>
            /\ sheets' = sheets
            /\ catRows' = catRows
            /\ UNCHANGED <<txRows, importColumns, settingsRows, logCount>>]_vars

C12_Witness ==
    /\ lastOp.op = "setup"
    /\ lastOp.rerun
    /\ Len(catRows) = Len(DefaultCategoryRows)
    /\ ~catRows[6].active

(* C13 as stated: when credentials are stored, a run of setup() leaves     *)
(* password_hash and password_salt unchanged.                              *)
C13_SetupKeepsPassword ==
    [][(SetupStep /\ props.configured) => props' = props]_vars

----------------------------------------------------------------------------
(* Categories: createCategory, updateCategory, activate and deactivate     *)

MaxCategoryLogs == 3

MAX_CATEGORIES == 500
MaxCategoryName == 100

(* name.trim() and name.trim().toLowerCase() of the names used here, and   *)
(* the length of the trimmed name                                          *)
CategoryNameShape ==
    ("Alimentacao" :> [trimmed |-> "Alimentacao", lower |-> "alimentacao", length |-> 11])
    @@ ("Lazer" :> [trimmed |-> "Lazer", lower |-> "lazer", length |-> 5])
    @@ ("Salario" :> [trimmed |-> "Salario", lower |-> "salario", length |-> 7])
    @@ ("Mercado" :> [trimmed |-> "Mercado", lower |-> "mercado", length |-> 7])
    @@ (" mercado " :> [trimmed |-> "mercado", lower |-> "mercado", length |-> 7])
    @@ ("mercado" :> [trimmed |-> "mercado", lower |-> "mercado", length |-> 7])
    @@ ("  " :> [trimmed |-> "", lower |-> "", length |-> 0])

validateCategoryData(data) ==
    IF data.kind \notin {"debit", "credit"} THEN "Tipo invalido"
    ELSE IF CategoryNameShape[data.name].length = 0 THEN "Nome e obrigatorio"
    ELSE IF CategoryNameShape[data.name].length > MaxCategoryName THEN "Nome longo"
    ELSE "OK"

sanitizeCategoryData(data) ==
    [kind |-> data.kind, name |-> CategoryNameShape[data.name].trimmed]

(* excludeId 0 stands for the call without the third argument *)
checkDuplicateCategory(name, kind, excludeId) ==
    \E i \in 1..Len(catRows) :
        /\ CategoryNameShape[catRows[i].name].lower = CategoryNameShape[name].lower
        /\ catRows[i].type = kind
        /\ (excludeId = 0 \/ catRows[i].id # excludeId)

createCategory(token, data) ==
    IF ~validateSession(token) THEN
        /\ lastOp' = Failure("createCategory", token, SessionMessage)
        /\ UNCHANGED <<catRows, logCount, dataVersion>>
    ELSE IF getDataRowCount(catRows) >= MAX_CATEGORIES THEN
        /\ logCount' = logCount + 1
        /\ lastOp' = Failure("createCategory", token, "Limite atingido")
        /\ UNCHANGED <<catRows, dataVersion>>
    ELSE IF validateCategoryData(data) # "OK" THEN
        /\ logCount' = logCount + 1
        /\ lastOp' = Failure("createCategory", token, validateCategoryData(data))
        /\ UNCHANGED <<catRows, dataVersion>>
    ELSE IF checkDuplicateCategory(data.name, data.kind, 0) THEN
        /\ logCount' = logCount + 1
        /\ lastOp' = Failure("createCategory", token, "Categoria ja existe")
        /\ UNCHANGED <<catRows, dataVersion>>
    ELSE
        /\ catRows' = Append(catRows,
               [id |-> getNextId(catRows), type |-> sanitizeCategoryData(data).kind,
                name |-> sanitizeCategoryData(data).name, active |-> TRUE])
        /\ logCount' = logCount + 1
        /\ dataVersion' = [dataVersion EXCEPT !.categories = @ + 1]
        /\ lastOp' = [op |-> "createCategory", token |-> token, ok |-> TRUE,
                      id |-> getNextId(catRows)]

updateCategory(token, id, data) ==
    IF ~validateSession(token) THEN
        /\ lastOp' = Failure("updateCategory", token, SessionMessage)
        /\ UNCHANGED <<catRows, logCount, dataVersion>>
    ELSE IF id = 0 THEN
        /\ lastOp' = Failure("updateCategory", token, "ID invalido")
        /\ UNCHANGED <<catRows, logCount, dataVersion>>
    ELSE IF ~\E i \in 1..Len(catRows) : catRows[i].id = id THEN
        /\ logCount' = logCount + 1
        /\ lastOp' = Failure("updateCategory", token, "Categoria nao encontrada")
        /\ UNCHANGED <<catRows, dataVersion>>
    ELSE IF validateCategoryData(data) # "OK" THEN
        /\ logCount' = logCount + 1
        /\ lastOp' = Failure("updateCategory", token, validateCategoryData(data))
        /\ UNCHANGED <<catRows, dataVersion>>
    ELSE IF checkDuplicateCategory(data.name, data.kind, id) THEN
        /\ logCount' = logCount + 1
        /\ lastOp' = Failure("updateCategory", token, "Ja existe outra categoria")
        /\ UNCHANGED <<catRows, dataVersion>>
    ELSE
        LET found == CHOOSE i \in 1..Len(catRows) :
                        /\ catRows[i].id = id
                        /\ \A j \in 1..(i - 1) : catRows[j].id # id
        IN  /\ catRows' = [catRows EXCEPT ![found] =
                   [id |-> id, type |-> sanitizeCategoryData(data).kind,
                    name |-> sanitizeCategoryData(data).name,
                    active |-> IF "isActive" \in DOMAIN data THEN data.isActive
                               ELSE catRows[found].active]]
            /\ logCount' = logCount + 1
            /\ dataVersion' = [dataVersion EXCEPT !.categories = @ + 1]
            /\ lastOp' = [op |-> "updateCategory", token |-> token, ok |-> TRUE,
                          id |-> id]

CategoryInputs ==
    {[kind |-> "debit", name |-> "Mercado"],
     [kind |-> "debit", name |-> " mercado "],
     [kind |-> "debit", name |-> "Alimentacao"],
     [kind |-> "credit", name |-> "Salario"],
     [kind |-> "credit", name |-> "Lazer", isActive |-> TRUE],
     [kind |-> "other", name |-> "Mercado"],
     [kind |-> "debit", name |-> "  "]}

(* A stored transaction of the category Alimentacao *)
StoredTx ==
    singleRow(<<>>, sanitizeTransactionData(
        [SampleTx EXCEPT !.type = "debit", !.category = "Alimentacao",
                         !.hasInstallments = FALSE, !.installments = 1]))

InitCategories ==
    /\ LoggedIn
    /\ props = [configured |-> FALSE]
    /\ txRows = <<StoredTx>>
    /\ importColumns = FALSE
    /\ catRows = SampleCategories
    /\ invRows = <<>>
    /\ logCount = 0
    /\ dataVersion = [transactions |-> 0, categories |-> 0, investments |-> 0]
    /\ uuidCount = 0
    /\ tz = 0
    /\ backups = 0
    /\ sheets = ConfiguredSheets
    /\ settingsRows = <<>>
    /\ procs = NoProcs
    /\ lock = 0
    /\ lastOp = [op |-> "none"]

CreateCategory ==
    /\ logCount < MaxCategoryLogs
    /\ \E token \in {ForgedToken, Token(1)}, data \in CategoryInputs :
          createCategory(token, data)
    /\ UNCHANGED <<clock, cache, props, txRows, importColumns, invRows, uuidCount,
                   tokenCount, tz, backups, sheets, settingsRows, procs, lock, audit>>

UpdateCategory ==
    /\ logCount < MaxCategoryLogs
    /\ \E token \in {ForgedToken, Token(1)}, id \in {0, 1, 6, 99}, data \in CategoryInputs :
          updateCategory(token, id, data)
    /\ UNCHANGED <<clock, cache, props, txRows, importColumns, invRows, uuidCount,
                   tokenCount, tz, backups, sheets, settingsRows, procs, lock, audit>>

CategoryStatus ==
    /\ \E id \in {1, 6}, isActive \in BOOLEAN : setCategoryStatus(Token(1), id, isActive)
    /\ UNCHANGED <<clock, cache, props, txRows, importColumns, invRows, uuidCount,
                   tokenCount, tz, backups, sheets, settingsRows, procs, lock, audit>>

CategoryCreateTransaction ==
    /\ createTransaction(Token(1),
           [SampleTx EXCEPT !.hasInstallments = FALSE, !.installments = 1])
    /\ UNCHANGED <<clock, cache, props, importColumns, catRows, invRows, tokenCount,
                   tz, backups, sheets, settingsRows, procs, lock, audit>>

NextCategories ==
    \/ CreateCategory
    \/ UpdateCategory
    \/ CategoryStatus
    \/ CategoryCreateTransaction

SpecCategories == InitCategories /\ [][NextCategories]_vars

(* C15 as stated: every stored transaction's (category name, type) names a *)
(* row of the Categories sheet, after any sequence of category operations. *)
C15_TransactionsNameCategories ==
    \A i \in 1..Len(txRows) :
        \E j \in 1..Len(catRows) :
            /\ catRows[j].name = txRows[i].category
            /\ catRows[j].type = txRows[i].type

----------------------------------------------------------------------------
(* Concurrent creating calls: getNextId takes the script lock, reads the   *)
(* last id and releases the lock; the caller writes its row afterwards.    *)

MaxRaceCalls == 3

Executions == {1, 2}

IdleProc == [pc |-> "idle"]

RaceInputs ==
    {[SampleTx EXCEPT !.hasInstallments = FALSE, !.installments = 1],
     [SampleTx EXCEPT !.type = "debit", !.category = "Alimentacao",
                      !.hasInstallments = FALSE, !.installments = 1]}

InFlight == Cardinality({p \in DOMAIN procs : procs[p].pc # "idle"})

InitRace ==
    /\ LoggedIn
    /\ props = [configured |-> FALSE]
    /\ txRows = <<>>
    /\ importColumns = FALSE
    /\ catRows = SampleCategories
    /\ invRows = <<>>
    /\ logCount = 0
    /\ dataVersion = [transactions |-> 0, categories |-> 0, investments |-> 0]
    /\ uuidCount = 0
    /\ tz = 0
    /\ backups = 0
    /\ sheets = ConfiguredSheets
    /\ settingsRows = <<>>
    /\ procs = [p \in Executions |-> IdleProc]
    /\ lock = 0
    /\ lastOp = [op |-> "none"]

(* createTransaction up to its call of getNextId: the session, the row     *)
(* limit and the data are checked                                          *)
RaceCall(p) ==
    /\ procs[p].pc = "idle"
    /\ Len(txRows) + InFlight < MaxRaceCalls
    /\ validateSession(Token(1))
    /\ getDataRowCount(txRows) < MAX_TRANSACTIONS
    /\ \E data \in RaceInputs :
          /\ validateTransactionData(data) = "OK"
          /\ procs' = [procs EXCEPT ![p] = [pc |-> "waitLock", data |-> data]]
    /\ UNCHANGED <<clock, cache, props, txRows, importColumns, catRows, invRows,
                   logCount, dataVersion, lastOp, uuidCount, tokenCount, tz, backups,
                   sheets, settingsRows, lock, audit>>

(* lock.waitLock(30000) returns with the lock *)
RaceWaitLock(p) ==
    /\ procs[p].pc = "waitLock"
    /\ lock = 0
    /\ lock' = p
    /\ procs' = [procs EXCEPT ![p].pc = "locked"]
    /\ UNCHANGED <<clock, cache, props, txRows, importColumns, catRows, invRows,
                   logCount, dataVersion, lastOp, uuidCount, tokenCount, tz, backups,
                   sheets, settingsRows, audit>>

(* lock.waitLock(30000) throws while another execution holds the lock: the *)
(* catch block returns 1, and releaseLock of a lock not held does nothing  *)
RaceLockTimeout(p) ==
    /\ procs[p].pc = "waitLock"
    /\ lock \notin {0, p}
    /\ procs' = [procs EXCEPT ![p] = [pc |-> "hasId", data |-> procs[p].data, id |-> 1]]
    /\ UNCHANGED <<clock, cache, props, txRows, importColumns, catRows, invRows,
                   logCount, dataVersion, lastOp, uuidCount, tokenCount, tz, backups,
                   sheets, settingsRows, lock, audit>>

(* the id is read from the last row, and the finally block releases the lock *)
RaceReadId(p) ==
    /\ procs[p].pc = "locked"
    /\ lock = p
    /\ procs' = [procs EXCEPT ![p] =
                    [pc |-> "hasId", data |-> procs[p].data, id |-> getNextId(txRows)]]
    /\ lock' = 0
    /\ UNCHANGED <<clock, cache, props, txRows, importColumns, catRows, invRows,
                   logCount, dataVersion, lastOp, uuidCount, tokenCount, tz, backups,
                   sheets, settingsRows, audit>>

(* the rest of createTransaction: addRow, logEvent, bumpUserDataVersion *)
RaceAddRow(p) ==
    /\ procs[p].pc = "hasId"
    /\ txRows' = Append(txRows,
           [singleRow(txRows, sanitizeTransactionData(procs[p].data))
                EXCEPT !.id = procs[p].id])
    /\ logCount' = logCount + 1
    /\ dataVersion' = [dataVersion EXCEPT !.transactions = @ + 1]
    /\ lastOp' = [op |-> "createTransaction", token |-> Token(1), ok |-> TRUE,
                  data |-> procs[p].data, parentId |-> 0,
                  installmentIds |-> <<procs[p].id>>]
    /\ procs' = [procs EXCEPT ![p] = IdleProc]
    /\ UNCHANGED <<clock, cache, props, importColumns, catRows, invRows, uuidCount,
                   tokenCount, tz, backups, sheets, settingsRows, lock, audit>>

NextRace ==
    \/ \E p \in Executions : RaceCall(p)
    \/ \E p \in Executions : RaceWaitLock(p)
    \/ \E p \in Executions : RaceLockTimeout(p)
    \/ \E p \in Executions : RaceReadId(p)
    \/ \E p \in Executions : RaceAddRow(p)

SpecRace == InitRace /\ [][NextRace]_vars

(* C16 as stated: in every interleaving of two creating calls on the       *)
(* Transactions sheet, lock timeouts included, the two executions never    *)
(* hold the same id and no two rows of the sheet have equal ids.           *)
C16_NoEqualIds ==
    /\ \A p, q \in DOMAIN procs :
          (p # q /\ procs[p].pc = "hasId" /\ procs[q].pc = "hasId")
              => procs[p].id # procs[q].id
    /\ \A i, j \in 1..Len(txRows) : i # j => txRows[i].id # txRows[j].id

----------------------------------------------------------------------------
(* Concurrent statementImportCommit: the existing hashes are read before   *)
(* lock.waitLock, the loop and addRows run with the lock held.             *)

MaxCommitCalls == 2

InitCommitRace ==
    /\ LoggedIn
    /\ props = [configured |-> FALSE]
    /\ txRows \in {<<>>, <<singleRow(<<>>, sanitizeTransactionData(SampleTx))>>}
    /\ importColumns = FALSE
    /\ catRows = SampleCategories
    /\ invRows = <<>>
    /\ logCount = 0
    /\ dataVersion = [transactions |-> 0, categories |-> 0, investments |-> 0]
    /\ uuidCount = 0
    /\ tz = 0
    /\ backups = 0
    /\ sheets = ConfiguredSheets
    /\ settingsRows = <<>>
    /\ procs = [p \in Executions |-> IdleProc]
    /\ lock = 0
    /\ lastOp = [op |-> "none"]

(* statementImportCommit up to lock.waitLock: session, parse, schema,      *)
(* batch id and the set of hashes already in the sheet                     *)
CommitCall(p) ==
    /\ procs[p].pc = "idle"
    /\ uuidCount < MaxCommitCalls
    /\ validateSession(Token(1))
    /\ \E csv \in CsvFiles \ {<<>>}, options \in ImportOptions :
          procs' = [procs EXCEPT ![p] =
              [pc |-> "waitLock", csv |-> csv, options |-> options,
               batchId |-> uuidCount + 1,
               existingHashes |-> statementImportGetExistingImportHashes(txRows)]]
    /\ importColumns' = TRUE
    /\ uuidCount' = uuidCount + 1
    /\ UNCHANGED <<clock, cache, props, txRows, catRows, invRows, logCount,
                   dataVersion, lastOp, tokenCount, tz, backups, sheets,
                   settingsRows, lock, audit>>

CommitWaitLock(p) ==
    /\ procs[p].pc = "waitLock"
    /\ lock = 0
    /\ lock' = p
    /\ procs' = [procs EXCEPT ![p].pc = "locked"]
    /\ UNCHANGED <<clock, cache, props, txRows, importColumns, catRows, invRows,
                   logCount, dataVersion, lastOp, uuidCount, tokenCount, tz, backups,
                   sheets, settingsRows, audit>>

(* lock.waitLock(30000) throws: the catch block logs and returns a failure *)
CommitLockTimeout(p) ==
    /\ procs[p].pc = "waitLock"
    /\ lock \notin {0, p}
    /\ logCount' = logCount + 1
    /\ lastOp' = Failure("statementImportCommit", Token(1), "Erro ao importar extrato")
    /\ procs' = [procs EXCEPT ![p] = IdleProc]
    /\ UNCHANGED <<clock, cache, props, txRows, importColumns, catRows, invRows,
                   dataVersion, uuidCount, tokenCount, tz, backups, sheets,
                   settingsRows, lock, audit>>

(* with the lock held: last id, the loop over the items, addRows, logEvent, *)
(* bumpUserDataVersion, and releaseLock in the finally block                *)
CommitWrite(p) ==
    /\ procs[p].pc = "locked"
    /\ lock = p
    /\ LET items == statementImportParse(procs[p].csv)
           options == procs[p].options
           lastId == IF Len(txRows) > 0 THEN txRows[Len(txRows)].id ELSE 0
           ctx == [defaults |-> options.defaults, source |-> options.source,
                   account |-> options.account, batchId |-> procs[p].batchId]
           done == importLoop(items, 1,
                              [rows |-> <<>>, seen |-> {}, nextId |-> lastId + 1,
                               skippedInvalid |-> 0, skippedDuplicates |-> 0],
                              procs[p].existingHashes, ctx)
       IN  IF done.rows = <<>> THEN
               /\ lastOp' = [op |-> "statementImportCommit", token |-> Token(1),
                             ok |-> FALSE, csv |-> procs[p].csv, options |-> options,
                             created |-> 0,
                             skippedInvalid |-> done.skippedInvalid,
                             skippedDuplicates |-> done.skippedDuplicates]
               /\ UNCHANGED <<txRows, logCount, dataVersion>>
           ELSE
               /\ txRows' = addRows(txRows, done.rows)
               /\ logCount' = logCount + 1
               /\ dataVersion' = [dataVersion EXCEPT !.transactions = @ + 1]
               /\ lastOp' = [op |-> "statementImportCommit", token |-> Token(1),
                             ok |-> TRUE, csv |-> procs[p].csv, options |-> options,
                             created |-> Len(done.rows),
                             skippedInvalid |-> done.skippedInvalid,
                             skippedDuplicates |-> done.skippedDuplicates]
    /\ lock' = 0
    /\ procs' = [procs EXCEPT ![p] = IdleProc]
    /\ UNCHANGED <<clock, cache, props, importColumns, catRows, invRows, uuidCount,
                   tokenCount, tz, backups, sheets, settingsRows, audit>>

NextCommitRace ==
    \/ \E p \in Executions : CommitCall(p)
    \/ \E p \in Executions : CommitWaitLock(p)
    \/ \E p \in Executions : CommitLockTimeout(p)
    \/ \E p \in Executions : CommitWrite(p)

SpecCommitRace == InitCommitRace /\ [][NextCommitRace]_vars

(* C17 as stated: in every interleaving of two concurrent commits with     *)
(* overlapping CSV content, no importHash is on two rows of the            *)
(* Transactions sheet.                                                     *)
C17_NoHashOnTwoRows ==
    \A i \in 1..Len(txRows) :
        \A j \in (i + 1)..Len(txRows) :
            txRows[i].importHash = <<>> \/ txRows[i].importHash # txRows[j].importHash

====
